---- MODULE Spec2Model ----
(***************************************************************************)
(* libsmm-asset: the authenticated session layer.                          *)
(*                                                                         *)
(* The model follows src/src/smm-asset-curl.c and src/src/smm-asset.c:     *)
(*   smm_asset_connect                  (smm-asset.c 44-61)                *)
(*   smm_asset_get_state                (smm-asset.c 63-71)                *)
(*   smm_asset_get_assets               (smm-asset.c 101-190)              *)
(*   smm_connection_curl_retrieve_url_r (smm-asset-curl.c 84-192)          *)
(*   extract_csrfmiddlewaretoken        (smm-asset-curl.c 201-241)         *)
(*   smm_connection_login               (smm-asset-curl.c 245-304)         *)
(*   smm_connection_curl_retrieve_url   (smm-asset-curl.c 306-372)         *)
(*                                                                         *)
(* A C string is a sequence of one-character strings; a nullable pointer   *)
(* is a sequence of length 0 (NULL) or 1 (the pointee).  Each thread has a *)
(* call stack of activation records; the remote server and libcurl are the *)
(* environment and answer every transfer with one response drawn from the  *)
(* repertoire of the server.  Allocation failures are not modelled.        *)
(***************************************************************************)
EXTENDS Integers, Sequences, FiniteSets, TLC

VARIABLES
    conn,       \* "none": not yet allocated, "new": inside smm_asset_connect, "open": returned
    host,       \* conn->host
    state,      \* conn->state
    token,      \* conn->csrfmiddlewaretoken (nullable)
    curl,       \* conn->curl: NULL, or the handle, named by its rank among those created
    lock,       \* owner of conn->lock, or NoThread
    server,     \* the kind of server on the other side (environment)
    callers,    \* the threads of the calling program that use the session
    stack,      \* per thread: the activation records, outermost first
    ret,        \* per thread: what the last library call returned to the program
    loginAccepted,  \* history: a login POST was answered with transport success and 302
    out,        \* per thread: what the last call of the public API returned, and its outputs
    tnod,       \* the node tree handed to extract_csrfmiddlewaretoken
    extracted   \* what extract_csrfmiddlewaretoken made of it

vars == <<conn, host, state, token, curl, lock, server, callers, stack, ret, loginAccepted,
          out, tnod, extracted>>

----------------------------------------------------------------------------
(* Bounds of the model *)

\* how many Login Procedures may be active (nested) in one thread, any server
MaxLoginNest == 1

\* the same, against the server that answers everything with the login redirect
WallLoginNest == 22

\* the same, against the server whose login page may answer with the login redirect
ReloginNest == 2

\* how many nodes the parsed login page may have below its root
MaxNodes == 3

\* how many times "https://" may come to head the host when racing threads
\* upgrade it one after the other
MaxHostSchemes == 2

----------------------------------------------------------------------------
(* Program constants *)

HTTP_SUCCESS == 200
HTTP_MOVED_PERMANENTLY == 301
HTTP_FOUND == 302
HTTP_SEE_OTHER == 303

\* the bound of the retry loop: retries < 3
MaxAttempts == 3

\* the lengths given to strncmp, and the offset &conn->host[7]
HttpsLen == 8
HttpLen == 7

SMM_CONNECTION_UNKNOWN == "UNKNOWN"
SMM_CONNECTION_CONNECTED == "CONNECTED"
SMM_CONNECTION_HOST_INVALID == "HOST_INVALID"
SMM_CONNECTION_NO_HOST_CONNECTION == "NO_HOST_CONNECTION"
SMM_CONNECTION_AUTHENTICATION_FAILURE == "AUTHENTICATION_FAILURE"
SMM_CONNECTION_FAILURE == "FAILURE"

Threads == {"t1", "t2"}
NoThread == "nobody"

----------------------------------------------------------------------------
(* Strings *)

NULL == <<>>
Ptr(x) == <<x>>
Deref(p) == p[1]

HttpsScheme == <<"h", "t", "t", "p", "s", ":", "/", "/">>
HttpScheme == <<"h", "t", "t", "p", ":", "/", "/">>
LoginMarker == <<"a", "c", "c", "o", "u", "n", "t", "s", "/", "l", "o", "g", "i", "n">>
LoginPath == <<"/">> \o LoginMarker \o <<"/">>
AssetsPath == <<"/", "a", "s", "s", "e", "t", "s", "/", "m", "i", "n", "e", "/", "j", "s", "o", "n", "/">>
OtherPath == <<"/", "y">>
HostName == <<"x">>
Garbage == <<"?">>

\* strncmp (s, p, n) == 0, for a literal p of at least n characters
StrNCmpEq(s, p, n) ==
    \A i \in 1..n : i <= Len(s) /\ s[i] = p[i]

\* strstr (s, sub) != NULL
StrStr(s, sub) ==
    \E i \in 1..(Len(s) - Len(sub) + 1) : SubSeq(s, i, i + Len(sub) - 1) = sub

\* &s[n]
StrFrom(s, n) == SubSeq(s, n + 1, Len(s))

----------------------------------------------------------------------------
(* The environment: hosts given to connect, and what a transfer can yield *)

Hosts == { HttpScheme \o HostName, HttpsScheme \o HostName, HostName }

Locations ==
    { HttpsScheme \o HostName \o LoginPath,
      HttpScheme \o HostName \o LoginPath,
      HttpsScheme \o HostName \o OtherPath,
      HttpScheme \o HostName \o OtherPath }

\* response bodies: a page without the token field, login forms, and lists of
\* assets.  A failed
\* transfer reports status 0 (no response) or the status it got (404: the
\* library sets CURLOPT_FAILONERROR, line 117)
Bodies == {"plain", "form1", "form2", "assets0", "assets1"}

\* a response without a body: nothing reaches the write function
NoBody == "none"

\* the bytes of a buffer to which the write function has added the bodies of
\* the transfers, one after the other
Bytes(buf) == SelectSeq(buf, LAMBDA b : b # NoBody)

\* the bodies that are a JSON text: an object with the array "assets", of no
\* asset or of one
JsonBodies == {"assets0", "assets1"}

\* the token a parsed document yields, given the bodies streamed into it
BodyToken(b) ==
    CASE b = "form1" -> Ptr("T1")
      [] b = "form2" -> Ptr("T2")
      [] OTHER -> NULL

Response(ok, code, loc, body) ==
    [success |-> ok, httpcode |-> code, location |-> loc,
     ctype |-> Ptr("text/html"), body |-> body]

RedirectCodes == {HTTP_MOVED_PERMANENTLY, HTTP_FOUND, HTTP_SEE_OTHER}

WallResponse == Response(TRUE, HTTP_FOUND, Ptr(HttpsScheme \o HostName \o LoginPath), "plain")

\* the bodies that differ for the reader of a path: the login parses HTML for
\* the token, smm_asset_get_assets decodes JSON
BodiesFor(path) ==
    IF path = LoginPath THEN Bodies \ JsonBodies ELSE {"plain"} \cup JsonBodies

AnyResponses(path) ==
    { Response(TRUE, HTTP_SUCCESS, NULL, b) : b \in BodiesFor(path) }
    \cup { Response(TRUE, c, Ptr(l), "plain") : c \in RedirectCodes, l \in Locations }
    \cup { Response(TRUE, c, NULL, "plain") : c \in RedirectCodes }
    \cup { Response(FALSE, 0, NULL, NoBody),
           Response(FALSE, 404, NULL, NoBody),
           Response(FALSE, HTTP_SUCCESS, NULL, "form1"),
           WallResponse,
           [WallResponse EXCEPT !.success = FALSE] }

\* the status codes libcurl may report: none, the ones the library tells
\* apart, and two it does not (a temporary redirect, an error)
CurlCodes == {0, HTTP_SUCCESS, HTTP_MOVED_PERMANENTLY, HTTP_FOUND, HTTP_SEE_OTHER, 307, 404}

\* everything libcurl may report of one transfer: the transfer code, the
\* status, CURLINFO_REDIRECT_URL and CURLINFO_CONTENT_TYPE (each may be NULL
\* whatever the status), and the body it has written
CurlReports ==
    { [success |-> ok, httpcode |-> c, location |-> l, ctype |-> ct, body |-> b] :
        ok \in BOOLEAN, c \in CurlCodes,
        l \in {NULL, Ptr(HttpsScheme \o HostName \o OtherPath)},
        ct \in {NULL, Ptr("text/html")},
        b \in {NoBody, "plain"} }

\* an orderly server: the login page is served or unreachable, the login POST is
\* accepted (302 to another page) or rejected (the form again), and any other
\* request is answered, redirected to the secure site, or finds the session expired
OrderlyResponses(path, post) ==
    IF path = LoginPath
    THEN IF post = NULL
         THEN { Response(TRUE, HTTP_SUCCESS, NULL, "form1"),
                Response(FALSE, 0, NULL, NoBody) }
         ELSE { Response(TRUE, HTTP_FOUND, Ptr(HttpsScheme \o HostName \o OtherPath), "plain"),
                Response(TRUE, HTTP_SUCCESS, NULL, "form1") }
    ELSE { Response(TRUE, HTTP_SUCCESS, NULL, "plain"),
           Response(TRUE, HTTP_FOUND, Ptr(HttpsScheme \o HostName \o OtherPath), "plain"),
           WallResponse }

\* an orderly server, except that the login page itself may answer with the
\* login redirect (to the canonical login URL, say)
ReloginResponses(path, post) ==
    OrderlyResponses(path, post)
    \cup (IF path = LoginPath /\ post = NULL THEN {WallResponse} ELSE {})

\* the secure site of a server that lets everybody in: the login form with a
\* token, the credentials accepted with a redirect to another page, the assets
UpgradingResponses(path, post) ==
    IF path = LoginPath
    THEN IF post = NULL
         THEN { Response(TRUE, HTTP_SUCCESS, NULL, "form1") }
         ELSE { Response(TRUE, HTTP_FOUND, Ptr(HttpsScheme \o HostName \o OtherPath), "plain") }
    ELSE { Response(TRUE, HTTP_SUCCESS, NULL, "assets1") }

\* the hosts the program gives to connect: the insecure URL when it is to meet
\* the server that lets everybody in, any of them otherwise
HostsGiven == IF server = "upgrading" THEN { HttpScheme \o HostName } ELSE Hosts

\* what the server may answer to a request
Repertoire(path, post) ==
    CASE server = "any" -> AnyResponses(path)
      [] server = "orderly" -> OrderlyResponses(path, post)
      [] server = "relogin" -> ReloginResponses(path, post)
      [] server = "wall" -> {WallResponse}
      [] server = "curl" -> CurlReports
      [] server = "upgrading" -> UpgradingResponses(path, post)

\* the orderly server sends a request made over the insecure scheme to the same
\* path of the secure site, unless the transfer fails as it may over either
\* scheme; the server that lets everybody in does the same, and never fails
InsecureResponses(path, post) ==
    { Response(TRUE, HTTP_FOUND, Ptr(HttpsScheme \o HostName \o path), "plain") }
    \cup { r \in OrderlyResponses(path, post) : ~r.success }

\* a URL that does not name the server reaches nobody: the transfer fails
Answers(h, path, post) ==
    IF h \notin Hosts THEN {Response(FALSE, 0, NULL, NoBody)}
    ELSE IF server = "orderly" /\ ~StrNCmpEq(h, HttpsScheme, HttpsLen)
    THEN InsecureResponses(path, post)
    ELSE IF server = "upgrading" /\ ~StrNCmpEq(h, HttpsScheme, HttpsLen)
    THEN { Response(TRUE, HTTP_FOUND, Ptr(HttpsScheme \o HostName \o path), "plain") }
    ELSE Repertoire(path, post)

LoginNestCap ==
    CASE server = "wall" -> WallLoginNest
      [] server = "relogin" -> ReloginNest
      [] OTHER -> MaxLoginNest

----------------------------------------------------------------------------
(* Call stacks *)

Top(t) == stack[t][Len(stack[t])]
Depth(t) == Len(stack[t])
SetTop(s, f) == [s EXCEPT ![Len(s)] = f]
Pop(s) == SubSeq(s, 1, Len(s) - 1)

IsFetch(f) == f.fn = "retrieve_url"
IsLogin(f) == f.fn = "login"

\* thread t is at statement pc of function fn (and the process is alive)
At(t, fn, pc) == conn # "aborted" /\ Depth(t) > 0 /\ Top(t).fn = fn /\ Top(t).pc = pc

\* another thread has freed conn->host (line 345) and not yet stored the new
\* pointer (line 346): conn->host dangles
HostDangling(t) ==
    \E u \in callers \ {t} : Depth(u) > 0 /\ Top(u).fn = "retrieve_url" /\ Top(u).pc = "assign"

\* what a read of conn->host by thread t can yield: the string, or, from freed
\* memory, the old bytes or whatever the allocator has put there
HostRead(t) == IF HostDangling(t) THEN {host, Garbage} ELSE {host}

RECURSIVE CountLogins(_)
CountLogins(s) ==
    IF s = <<>> THEN 0
    ELSE (IF IsLogin(s[1]) THEN 1 ELSE 0) + CountLogins(Tail(s))

\* smm_connection_curl_retrieve_url, lines 310-311: the locals before the first raw call
FetchFrame(path, post, sink) ==
    [fn |-> "retrieve_url", pc |-> "call_r", path |-> path, post |-> post, sink |-> sink,
     wbuf |-> <<>>, retry |-> TRUE, retries |-> 0, res |-> NULL, new_host |-> NULL,
     attempts |-> 0, hist |-> <<>>]

\* smm_connection_login, lines 248-257: the locals, then the GET of the login page
\* (history: state0 is conn->state at the call)
LoginFrame ==
    [fn |-> "login", pc |-> "get", res |-> FALSE, res_get |-> NULL, res_post |-> NULL,
     docbuf |-> <<>>, post_data |-> NULL, state0 |-> state]

CallLogin(s) ==
    s \o << LoginFrame, FetchFrame(LoginPath, NULL, TRUE) >>

----------------------------------------------------------------------------
(* smm_connection_curl_retrieve_url_r: one raw transfer *)

\* faulty variant: what curl reports is copied whatever the status
RawResult_CopiesAll(h, path, r) ==
    [success |-> r.success,
     httpcode |-> r.httpcode,
     full_uri |-> h \o path,
     redirect_url |-> r.location,
     content_type |-> r.ctype]

\* lines 163 and 174: strdup of what curl_easy_getinfo has stored, which is
\* NULL when the response has no such header
StrdupOfNull(r) ==
    \/ r.httpcode = HTTP_SUCCESS /\ r.ctype = NULL
    \/ r.httpcode \in RedirectCodes /\ r.location = NULL

\* lines 107-109 and 151-177: the result object built from what curl reports
RawResult(h, path, r) ==
    [success |-> r.success,
     httpcode |-> r.httpcode,
     full_uri |-> h \o path,
     redirect_url |-> IF r.httpcode \in RedirectCodes THEN r.location ELSE NULL,
     content_type |-> IF r.httpcode = HTTP_SUCCESS THEN r.ctype ELSE NULL]

\* faulty variant: the caller does not wait for the mutex
MutexFree_NoWait(l) == TRUE

\* line 98: pthread_mutex_lock returns once no thread owns the mutex
MutexFree(l) == l = NoThread

\* faulty variant: the raw call returns without unlocking
MutexUnlock_Forgotten(l) == l

\* lines 113 and 187: pthread_mutex_unlock
MutexUnlock(l) == NoThread

\* faulty variant: a handle is created on every call
CurlOf_AlwaysNew(c) == IF c = NULL THEN Ptr(1) ELSE Ptr(Deref(c) + 1)

\* lines 99-105: the handle of the session, created if there is none yet
CurlOf(c) == IF c = NULL THEN Ptr(1) ELSE c

\* lines 98-105: take the session lock, create the curl handle on first use
RLock(t) ==
    /\ At(t, "retrieve_url", "call_r")
    /\ MutexFree(lock)
    /\ lock' = t
    /\ curl' = CurlOf(curl)
    /\ stack' = [stack EXCEPT ![t] = SetTop(@, [Top(t) EXCEPT !.pc = "perform"])]
    /\ UNCHANGED <<conn, host, state, token, server, callers, ret, loginAccepted, out, tnod, extracted>>

\* lines 107-191: build the URL from conn->host, perform the transfer (the
\* body goes to the write function, or to eat_data), fill the result, unlock.
\* strdup (NULL) is undefined: the process dies there, or the field stays NULL
RPerform(t) ==
    /\ At(t, "retrieve_url", "perform")
    /\ lock = t
    /\ \E h \in HostRead(t) : \E r \in Answers(h, Top(t).path, Top(t).post) :
         LET f == Top(t) IN
         /\ conn' \in (IF StrdupOfNull(r) THEN {conn, "aborted"} ELSE {conn})
         /\ stack' = [stack EXCEPT ![t] = SetTop(@,
                [f EXCEPT !.pc = "eval",
                          !.res = Ptr(RawResult(h, f.path, r)),
                          !.wbuf = IF f.sink THEN Append(@, r.body) ELSE @,
                          !.attempts = @ + 1])]
         /\ loginAccepted' = (loginAccepted \/
                (f.post # NULL /\ f.path = LoginPath /\ r.success /\ r.httpcode = HTTP_FOUND))
    /\ lock' = MutexUnlock(lock)
    /\ UNCHANGED <<host, state, token, curl, server, callers, ret, out, tnod, extracted>>

----------------------------------------------------------------------------
(* smm_connection_curl_retrieve_url: the redirect/retry controller *)

\* line 314: while (retry && retries < 3 && res != NULL)
LoopCond(f) == f.retry /\ f.retries < MaxAttempts /\ f.res # NULL

\* faulty variant: the transport flag of the result is not looked at
IsHandledRedirect_AnyTransport(res) ==
    res.httpcode = HTTP_FOUND /\ res.redirect_url # NULL

\* line 318
IsHandledRedirect(res) ==
    res.success /\ res.httpcode = HTTP_FOUND /\ res.redirect_url # NULL

\* line 322: strncmp (conn->host, "https://", 8) == 0
HostIsSecure(h) == StrNCmpEq(h, HttpsScheme, HttpsLen)

\* line 324
TargetIsSecure(url) == StrNCmpEq(url, HttpsScheme, HttpsLen)

\* line 351
TargetIsLogin(url) == StrStr(url, LoginMarker)

\* faulty variant: the insecure scheme is not taken off
NewHost_KeepsScheme(h) == HttpsScheme \o h

\* lines 329-342
NewHost(h) ==
    IF StrNCmpEq(h, HttpScheme, HttpLen)
    THEN HttpsScheme \o StrFrom(h, HttpLen)
    ELSE HttpsScheme \o h

\* how many times the secure scheme heads a host
RECURSIVE SchemeCount(_)
SchemeCount(h) ==
    IF StrNCmpEq(h, HttpsScheme, HttpsLen) THEN 1 + SchemeCount(StrFrom(h, HttpsLen)) ELSE 0

\* faulty variant: the upgrade is decided by the target alone
RedirectAction_AnyHost(h, res) ==
    IF ~IsHandledRedirect(res) THEN "none"
    ELSE IF TargetIsSecure(Deref(res.redirect_url)) THEN "upgrade"
    ELSE IF TargetIsLogin(Deref(res.redirect_url)) THEN "login" ELSE "none"

\* lines 318-362: what the controller does with the result of an attempt
RedirectAction(h, res) ==
    IF ~IsHandledRedirect(res) THEN "none"
    ELSE IF ~HostIsSecure(h)
         THEN (IF TargetIsSecure(Deref(res.redirect_url)) THEN "upgrade" ELSE "none")
         ELSE IF TargetIsLogin(Deref(res.redirect_url)) THEN "login" ELSE "none"

\* faulty variant: the second test of the bound is forgotten
MayRetry_Unbounded(retry, retries) == retry

\* line 364
MayRetry(retry, retries) == retry /\ retries < MaxAttempts

\* faulty variant: the old result is kept while the next raw call is made
TailStep_KeepsResult(g) ==
    IF g.retry /\ g.retries < MaxAttempts
    THEN [g EXCEPT !.pc = "call_r"]
    ELSE [g EXCEPT !.pc = "eval"]

\* lines 364-369: free the result and go for another raw call, or back to the loop test
TailStep(g) ==
    IF MayRetry(g.retry, g.retries)
    THEN [g EXCEPT !.res = NULL, !.pc = "call_r"]
    ELSE [g EXCEPT !.pc = "eval"]

\* history: the result answers with a 302 whose target names the login path
IsLoginRedirect(res) ==
    /\ res.success
    /\ res.httpcode = HTTP_FOUND
    /\ res.redirect_url # NULL
    /\ StrStr(Deref(res.redirect_url), LoginMarker)

\* lines 316-317, and the log of the evaluations of this call (history): what
\* was done with each result, and whether the result was a login redirect
Entered(f, act) ==
    [f EXCEPT !.retry = FALSE, !.retries = @ + 1,
              !.hist = Append(@, [act |-> act, login_redirect |-> IsLoginRedirect(Deref(f.res))])]

\* line 314 false, line 371
EvalExit(t) ==
    /\ At(t, "retrieve_url", "eval")
    /\ ~LoopCond(Top(t))
    /\ stack' = [stack EXCEPT ![t] = SetTop(@, [Top(t) EXCEPT !.pc = "done"])]
    /\ UNCHANGED <<conn, host, state, token, curl, lock, server, callers, ret, loginAccepted, out, tnod, extracted>>

\* lines 314-318 (false), or 359-362, then 364
EvalNone(t) ==
    /\ At(t, "retrieve_url", "eval")
    /\ LoopCond(Top(t))
    /\ \E h \in HostRead(t) : RedirectAction(h, Deref(Top(t).res)) = "none"
    /\ stack' = [stack EXCEPT ![t] = SetTop(@, TailStep(Entered(Top(t), "none")))]
    /\ UNCHANGED <<conn, host, state, token, curl, lock, server, callers, ret, loginAccepted, out, tnod, extracted>>

\* lines 314-324: the redirect asks for the scheme upgrade
EvalUpgrade(t) ==
    /\ At(t, "retrieve_url", "eval")
    /\ LoopCond(Top(t))
    /\ \E h \in HostRead(t) : RedirectAction(h, Deref(Top(t).res)) = "upgrade"
    /\ stack' = [stack EXCEPT ![t] = SetTop(@, [Entered(Top(t), "upgrade") EXCEPT !.pc = "newhost"])]
    /\ UNCHANGED <<conn, host, state, token, curl, lock, server, callers, ret, loginAccepted, out, tnod, extracted>>

\* lines 329-342: new_host is built from conn->host, read once more
UpgradeBuild(t) ==
    /\ At(t, "retrieve_url", "newhost")
    /\ \E h \in HostRead(t) :
         /\ SchemeCount(NewHost(h)) <= MaxHostSchemes
         /\ stack' = [stack EXCEPT ![t] = SetTop(@,
                [Top(t) EXCEPT !.pc = "free", !.new_host = Ptr(NewHost(h))])]
    /\ UNCHANGED <<conn, host, state, token, curl, lock, server, callers, ret, loginAccepted, out, tnod, extracted>>

\* line 345: free (conn->host).  Freeing what another thread has just freed is
\* a double free: the allocator aborts the process, or does not notice
UpgradeFree(t) ==
    /\ At(t, "retrieve_url", "free")
    /\ conn' \in (IF HostDangling(t) THEN {conn, "aborted"} ELSE {conn})
    /\ stack' = [stack EXCEPT ![t] = SetTop(@, [Top(t) EXCEPT !.pc = "assign"])]
    /\ UNCHANGED <<host, state, token, curl, lock, server, callers, ret, loginAccepted, out, tnod, extracted>>

\* lines 346-347, then 364-368
UpgradeAssign(t) ==
    /\ At(t, "retrieve_url", "assign")
    /\ host' = Deref(Top(t).new_host)
    /\ stack' = [stack EXCEPT ![t] = SetTop(@,
            TailStep([Top(t) EXCEPT !.retry = TRUE, !.new_host = NULL]))]
    /\ UNCHANGED <<conn, state, token, curl, lock, server, callers, ret, loginAccepted, out, tnod, extracted>>

\* lines 314-354: the call of smm_connection_login
EvalLogin(t) ==
    /\ At(t, "retrieve_url", "eval")
    /\ LoopCond(Top(t))
    /\ \E h \in HostRead(t) : RedirectAction(h, Deref(Top(t).res)) = "login"
    /\ CountLogins(stack[t]) < LoginNestCap
    /\ stack' = [stack EXCEPT ![t] =
            CallLogin(SetTop(@, [Entered(Top(t), "login") EXCEPT !.pc = "login"]))]
    /\ UNCHANGED <<conn, host, state, token, curl, lock, server, callers, ret, loginAccepted, out, tnod, extracted>>

\* line 371: return res, to smm_connection_login or to smm_asset_get_assets
\* (history: ret keeps what a request of the program got, result and buffer)
FetchReturn(t) ==
    /\ At(t, "retrieve_url", "done")
    /\ LET f == Top(t)
           rest == Pop(stack[t])
           l == rest[Len(rest)]
       IN IF l.fn = "get_assets"
          THEN /\ stack' = [stack EXCEPT ![t] = SetTop(rest,
                     [l EXCEPT !.res = f.res, !.buf = f.wbuf, !.pc = "decide"])]
               /\ ret' = [ret EXCEPT ![t] = Ptr([res |-> f.res, body |-> f.wbuf])]
          ELSE /\ stack' = [stack EXCEPT ![t] = SetTop(rest,
                     IF l.pc = "get"
                     THEN [l EXCEPT !.res_get = f.res, !.docbuf = f.wbuf, !.pc = "got"]
                     ELSE [l EXCEPT !.res_post = f.res, !.pc = "posted"])]
               /\ ret' = ret
    /\ UNCHANGED <<conn, host, state, token, curl, lock, server, callers, loginAccepted, out, tnod, extracted>>

----------------------------------------------------------------------------
(* extract_csrfmiddlewaretoken, on the node tree that tidy has parsed *)

\* a node: tidyNodeGetName (NULL for text), its attributes in the order of
\* tidyAttrFirst/tidyAttrNext, its children in the order of tidyGetChild/tidyGetNext
Node(name, attrs, children) == [name |-> name, attrs |-> attrs, children |-> children]

\* an attribute: tidyAttrName, and tidyAttrValue (NULL when the attribute has no value)
Attr(name, value) == [name |-> name, value |-> value]

TokenField == "csrfmiddlewaretoken"

AttrLists ==
    { <<>>,
      << Attr("name", Ptr(TokenField)), Attr("value", Ptr("XYZ123")) >>,
      << Attr("name", Ptr(TokenField)), Attr("value", Ptr("ABC")) >>,
      << Attr("type", Ptr("hidden")), Attr("name", Ptr(TokenField)), Attr("value", Ptr("XYZ123")) >>,
      << Attr("value", Ptr("XYZ123")), Attr("name", Ptr(TokenField)) >>,
      << Attr("name", Ptr("foo")), Attr("value", Ptr("bar")) >>,
      << Attr("name", Ptr(TokenField)), Attr("name", Ptr("foo")), Attr("value", Ptr("ABC")) >>,
      << Attr("name", Ptr(TokenField)) >>,
      << Attr("name", NULL) >>,
      << Attr("name", Ptr(TokenField)), Attr("value", NULL) >> }

\* the labels of the nodes: input elements, other elements, text
Labels ==
    { [name |-> Ptr("input"), attrs |-> a] : a \in AttrLists }
    \cup { [name |-> Ptr("div"), attrs |-> a] :
              a \in { <<>>, << Attr("name", Ptr(TokenField)), Attr("value", Ptr("XYZ123")) >> } }
    \cup { [name |-> NULL, attrs |-> <<>>] }

\* the sequences of sibling trees that have n nodes in all (a text node has no children)
RECURSIVE ForestsOf(_)
ForestsOf(n) ==
    IF n = 0 THEN { <<>> }
    ELSE UNION { { << Node(lk[1].name, lk[1].attrs, kids) >> \o rest :
                     kids \in { f \in ForestsOf(lk[2] - 1) : lk[1].name = NULL => f = <<>> },
                     rest \in ForestsOf(n - lk[2]) } : lk \in Labels \X (1..n) }

\* the documents: a root (tidyGetRoot) over a forest of at most max nodes
Documents(max) == { Node(NULL, <<>>, f) : f \in UNION { ForestsOf(n) : n \in 0..max } }

\* strcmp and strdup on a NULL string are undefined: the process faults, or
\* (lenient) the comparison finds no match and the copy is NULL
NoMatch(res) == [found |-> FALSE, res |-> res, value |-> NULL, fault |-> FALSE]

\* lines 212-231: the loop over the attributes of an input element; res is the
\* flag of the enclosing function
RECURSIVE ScanAttrs(_, _, _)
ScanAttrs(attrs, res, lenient) ==
    IF attrs = <<>> THEN NoMatch(res)
    ELSE LET a == Head(attrs) IN
         IF a.name = "name"
         THEN IF a.value = NULL /\ ~lenient
              THEN [NoMatch(res) EXCEPT !.fault = TRUE]
              ELSE ScanAttrs(Tail(attrs), res \/ a.value = Ptr(TokenField), lenient)
         ELSE IF a.name = "value" /\ res
         THEN IF a.value = NULL /\ ~lenient
              THEN [NoMatch(res) EXCEPT !.fault = TRUE]
              ELSE [NoMatch(res) EXCEPT !.found = TRUE, !.value = a.value]
         ELSE ScanAttrs(Tail(attrs), res, lenient)

\* lines 207-232: only an element named input has its attributes looked at
ScanElement(child, res, lenient) ==
    IF child.name # NULL /\ Deref(child.name) = "input"
    THEN ScanAttrs(child.attrs, res, lenient)
    ELSE NoMatch(res)

\* lines 205-240: the loop over the children that are left, with the locals res
\* and *token; the recursion into a child starts with res = false
RECURSIVE ExtractLoop(_, _, _, _)
ExtractLoop(children, res, tok, lenient) ==
    IF children = <<>> THEN [ret |-> res, token |-> tok, fault |-> FALSE]
    ELSE LET child == Head(children)
             scan == ScanElement(child, res, lenient)
         IN IF scan.fault THEN [ret |-> FALSE, token |-> tok, fault |-> TRUE]
            ELSE IF scan.found THEN [ret |-> TRUE, token |-> scan.value, fault |-> FALSE]
            ELSE LET sub == ExtractLoop(child.children, FALSE, tok, lenient) IN
                 IF sub.fault \/ sub.ret THEN sub
                 ELSE ExtractLoop(Tail(children), sub.ret, sub.token, lenient)

extract_csrfmiddlewaretoken(tn, tok, lenient) ==
    ExtractLoop(tn.children, FALSE, tok, lenient)

\* line 265, as a step of its own: the extraction from a parsed document
Extract ==
    /\ tnod # NULL
    /\ extracted = NULL
    /\ \E lenient \in BOOLEAN :
         extracted' = Ptr(extract_csrfmiddlewaretoken(Deref(tnod), NULL, lenient))
    /\ UNCHANGED <<conn, host, state, token, curl, lock, server, callers, stack, ret,
                   loginAccepted, out, tnod>>

----------------------------------------------------------------------------
(* smm_connection_login *)

\* lines 261-265: the token of the first matching input of the parsed document;
\* the document is everything the write function received
RECURSIVE ExtractToken(_)
ExtractToken(doc) ==
    IF doc = <<>> THEN NULL
    ELSE IF BodyToken(Head(doc)) # NULL THEN BodyToken(Head(doc))
    ELSE ExtractToken(Tail(doc))

\* line 259
LoginPageOk(res_get) ==
    res_get # NULL /\ Deref(res_get).success /\ Deref(res_get).httpcode = HTTP_SUCCESS

\* line 265: extract_csrfmiddlewaretoken stores into the session only when it finds a token
TokenAfter(doc, old) ==
    IF ExtractToken(doc) # NULL THEN ExtractToken(doc) ELSE old

\* faulty variant: the transport flag of the POST is not looked at
LoginPostOk_AnyTransport(res_post) ==
    res_post # NULL /\ Deref(res_post).httpcode = HTTP_FOUND

\* faulty variant: the login page served again counts as success
LoginPostOk_Status200(res_post) ==
    res_post # NULL /\ Deref(res_post).success /\ Deref(res_post).httpcode = HTTP_SUCCESS

\* line 275
LoginPostOk(res_post) ==
    res_post # NULL /\ Deref(res_post).success /\ Deref(res_post).httpcode = HTTP_FOUND

\* lines 259-274: the login page was fetched and a token is at hand: POST the form
LoginSubmit(t) ==
    /\ At(t, "login", "got")
    /\ LoginPageOk(Top(t).res_get)
    /\ TokenAfter(Top(t).docbuf, token) # NULL
    /\ token' = TokenAfter(Top(t).docbuf, token)
    /\ stack' = [stack EXCEPT ![t] =
            Append(SetTop(@, [Top(t) EXCEPT !.pc = "post", !.post_data = token']),
                   FetchFrame(LoginPath, token', FALSE))]
    /\ UNCHANGED <<conn, host, state, curl, lock, server, callers, ret, loginAccepted, out, tnod, extracted>>

\* lines 259-267 with no token, or 289-297: nothing is submitted
LoginNoSubmit(t) ==
    /\ At(t, "login", "got")
    /\ ~(LoginPageOk(Top(t).res_get) /\ TokenAfter(Top(t).docbuf, token) # NULL)
    /\ token' = IF LoginPageOk(Top(t).res_get) THEN TokenAfter(Top(t).docbuf, token) ELSE token
    /\ state' = IF ~LoginPageOk(Top(t).res_get) /\ Top(t).res_get = NULL
                THEN SMM_CONNECTION_NO_HOST_CONNECTION
                ELSE state
    /\ stack' = [stack EXCEPT ![t] = SetTop(@, [Top(t) EXCEPT !.pc = "ret"])]
    /\ UNCHANGED <<conn, host, curl, lock, server, callers, ret, loginAccepted, out, tnod, extracted>>

\* faulty variant: a login that fails forgets what the session was
StateAfterPost_Forgets(res_post) ==
    IF LoginPostOk(res_post)
    THEN SMM_CONNECTION_CONNECTED
    ELSE SMM_CONNECTION_UNKNOWN

\* faulty variant: a login that fails is a failure of the other kind
StateAfterPost_GeneralFailure(res_post) ==
    IF LoginPostOk(res_post)
    THEN SMM_CONNECTION_CONNECTED
    ELSE SMM_CONNECTION_FAILURE

\* lines 275-283: the state the answer to the POST leaves
StateAfterPost(res_post) ==
    IF LoginPostOk(res_post)
    THEN SMM_CONNECTION_CONNECTED
    ELSE SMM_CONNECTION_AUTHENTICATION_FAILURE

\* lines 275-285: the result of the POST decides
LoginAfterPost(t) ==
    /\ At(t, "login", "posted")
    /\ state' = StateAfterPost(Top(t).res_post)
    /\ stack' = [stack EXCEPT ![t] = SetTop(@,
            [Top(t) EXCEPT !.pc = "ret", !.res = LoginPostOk(Top(t).res_post)])]
    /\ UNCHANGED <<conn, host, token, curl, lock, server, callers, ret, loginAccepted, out, tnod, extracted>>

\* line 303: return res, to smm_asset_connect (line 58, the value is dropped, then
\* line 60) or to the controller (lines 354-357, then 364-368)
LoginReturn(t) ==
    /\ At(t, "login", "ret")
    /\ LET l == Top(t)
           rest == Pop(stack[t])
           c == rest[Len(rest)]
       IN IF c.fn = "connect"
          THEN /\ stack' = [stack EXCEPT ![t] = <<>>]
               /\ conn' = "open"
          ELSE /\ stack' = [stack EXCEPT ![t] = SetTop(rest,
                     TailStep([c EXCEPT !.retry = l.res,
                                        !.hist[Len(c.hist)].act =
                                            IF l.res THEN "login_ok" ELSE "login_failed"]))]
               /\ conn' = conn
    /\ UNCHANGED <<host, state, token, curl, lock, server, callers, ret, loginAccepted, out, tnod, extracted>>

----------------------------------------------------------------------------
(* The calling program *)

\* smm_asset_connect, lines 47-58: a zeroed session, the host, the initial login
Connect(t) ==
    /\ conn = "none"
    /\ stack[t] = <<>>
    /\ \E h \in HostsGiven : host' = h
    /\ conn' = "new"
    /\ state' = SMM_CONNECTION_UNKNOWN
    /\ token' = NULL
    /\ curl' = NULL
    /\ lock' = NoThread
    /\ stack' = [stack EXCEPT ![t] = CallLogin(<< [fn |-> "connect", pc |-> "login"] >>)]
    /\ UNCHANGED <<server, callers, ret, loginAccepted, out, tnod, extracted>>

\* json_loadb on the bytes of the buffer: the root, when they are one JSON text
JsonLoad(buf) ==
    IF Len(Bytes(buf)) = 1 /\ Bytes(buf)[1] \in JsonBodies THEN Ptr(Bytes(buf)[1]) ELSE NULL

\* lines 126-173: the assets of the array "assets" of the root
AssetsOf(root) == IF root = "assets1" THEN << "asset" >> ELSE <<>>

\* lines 108-112
FetchedOk(res) == res # NULL /\ Deref(res).success /\ Deref(res).httpcode = HTTP_SUCCESS

\* smm_asset_get_assets, lines 104-107: the request for the list of assets
Fetch(t) ==
    /\ conn = "open"
    /\ stack[t] = <<>>
    /\ stack' = [stack EXCEPT ![t] =
            << [fn |-> "get_assets", pc |-> "fetch", res |-> NULL, buf |-> <<>>],
               FetchFrame(AssetsPath, NULL, TRUE) >>]
    /\ ret' = [ret EXCEPT ![t] = NULL]
    /\ out' = [out EXCEPT ![t] = NULL]
    /\ UNCHANGED <<conn, host, state, token, curl, lock, server, callers, loginAccepted, tnod, extracted>>

\* smm_asset_get_assets, lines 108-189: false without a result with success and
\* 200; otherwise the outputs are reset, filled from the decoded buffer (left
\* empty when it does not decode), and true is returned
GetAssetsReturn(t) ==
    /\ At(t, "get_assets", "decide")
    /\ LET g == Top(t) IN
       out' = [out EXCEPT ![t] =
                 IF ~FetchedOk(g.res)
                 THEN Ptr([op |-> "get_assets", value |-> FALSE, assets |-> NULL])
                 ELSE Ptr([op |-> "get_assets", value |-> TRUE,
                           assets |-> Ptr(IF JsonLoad(g.buf) # NULL
                                          THEN AssetsOf(Deref(JsonLoad(g.buf)))
                                          ELSE <<>>)])]
    /\ stack' = [stack EXCEPT ![t] = <<>>]
    /\ UNCHANGED <<conn, host, state, token, curl, lock, server, callers, ret,
                   loginAccepted, tnod, extracted>>

\* faulty variant: the session is not tested for NULL, whatever session there is is read
StateOf_Unchecked(c) == state

\* smm_asset_connection_get_state, lines 66-70, for a session pointer c (NULL, or the session)
StateOf(c) == IF c = NULL THEN SMM_CONNECTION_UNKNOWN ELSE state

\* the session pointers the program can hand to the library
Sessions == IF conn = "open" THEN {NULL, Ptr("conn")} ELSE {NULL}

\* smm_asset_connection_get_state: the call and its return.  History: nth counts
\* the calls (1, then 2 for every later one) since the last other call of the thread
GetState(t) ==
    /\ conn # "aborted"
    /\ stack[t] = <<>>
    /\ \E c \in Sessions :
         out' = [out EXCEPT ![t] = Ptr([op |-> "get_state", session |-> c, value |-> StateOf(c),
                    nth |-> IF out[t] # NULL /\ Deref(out[t]).op = "get_state" THEN 2 ELSE 1])]
    /\ UNCHANGED <<conn, host, state, token, curl, lock, server, callers, stack, ret,
                   loginAccepted, tnod, extracted>>

----------------------------------------------------------------------------
(* Specifications *)

InitSession ==
    /\ conn = "none"
    /\ host = NULL
    /\ state = SMM_CONNECTION_UNKNOWN
    /\ token = NULL
    /\ curl = NULL
    /\ lock = NoThread
    /\ stack = [t \in Threads |-> <<>>]
    /\ ret = [t \in Threads |-> NULL]
    /\ loginAccepted = FALSE
    /\ out = [t \in Threads |-> NULL]
    /\ extracted = NULL

\* one thread, and one of the servers
Init ==
    /\ InitSession
    /\ tnod = NULL
    /\ callers = {"t1"}
    /\ server \in {"any", "wall", "relogin", "upgrading"}

\* two threads share the session
InitMT ==
    /\ InitSession
    /\ tnod = NULL
    /\ callers = Threads
    /\ server = "orderly"

Next ==
    \/ \E t \in callers : Connect(t)
    \/ \E t \in callers : Fetch(t)
    \/ \E t \in callers : RLock(t)
    \/ \E t \in callers : RPerform(t)
    \/ \E t \in callers : EvalExit(t)
    \/ \E t \in callers : EvalNone(t)
    \/ \E t \in callers : EvalUpgrade(t)
    \/ \E t \in callers : UpgradeBuild(t)
    \/ \E t \in callers : UpgradeFree(t)
    \/ \E t \in callers : UpgradeAssign(t)
    \/ \E t \in callers : EvalLogin(t)
    \/ \E t \in callers : FetchReturn(t)
    \/ \E t \in callers : LoginSubmit(t)
    \/ \E t \in callers : LoginNoSubmit(t)
    \/ \E t \in callers : LoginAfterPost(t)
    \/ \E t \in callers : LoginReturn(t)
    \/ \E t \in callers : GetAssetsReturn(t)
    \/ \E t \in callers : GetState(t)

Spec == Init /\ [][Next]_vars

\* the program of the threads that share the session: one of them connects,
\* then each asks for the assets once, and reads the state when it likes
FirstFetch(t) == ret[t] = NULL /\ Fetch(t)

NextMT ==
    \/ \E t \in callers : Connect(t)
    \/ \E t \in callers : FirstFetch(t)
    \/ \E t \in callers : RLock(t)
    \/ \E t \in callers : RPerform(t)
    \/ \E t \in callers : EvalExit(t)
    \/ \E t \in callers : EvalNone(t)
    \/ \E t \in callers : EvalUpgrade(t)
    \/ \E t \in callers : UpgradeBuild(t)
    \/ \E t \in callers : UpgradeFree(t)
    \/ \E t \in callers : UpgradeAssign(t)
    \/ \E t \in callers : EvalLogin(t)
    \/ \E t \in callers : FetchReturn(t)
    \/ \E t \in callers : LoginSubmit(t)
    \/ \E t \in callers : LoginNoSubmit(t)
    \/ \E t \in callers : LoginAfterPost(t)
    \/ \E t \in callers : LoginReturn(t)
    \/ \E t \in callers : GetAssetsReturn(t)
    \/ \E t \in callers : GetState(t)

SpecMT == InitMT /\ [][NextMT]_vars

\* the token extraction alone, on every document of the bound
InitExtract ==
    /\ InitSession
    /\ tnod \in { Ptr(d) : d \in Documents(MaxNodes) }
    /\ callers = {}
    /\ server = "any"

NextExtract == Extract

SpecExtract == InitExtract /\ [][NextExtract]_vars

\* one raw transfer, of a request for the assets, against anything libcurl
\* may report: the session is the one a connect that reached nobody has left
InitRaw ==
    /\ conn = "open"
    /\ host \in Hosts
    /\ state = SMM_CONNECTION_UNKNOWN
    /\ token = NULL
    /\ curl = Ptr(1)
    /\ lock = "t1"
    /\ server = "curl"
    /\ callers = {"t1"}
    /\ stack = [t \in Threads |->
                 IF t = "t1"
                 THEN << [fn |-> "get_assets", pc |-> "fetch", res |-> NULL, buf |-> <<>>],
                         [FetchFrame(AssetsPath, NULL, TRUE) EXCEPT !.pc = "perform"] >>
                 ELSE <<>>]
    /\ ret = [t \in Threads |-> NULL]
    /\ loginAccepted = FALSE
    /\ out = [t \in Threads |-> NULL]
    /\ tnod = NULL
    /\ extracted = NULL

NextRaw == \E t \in callers : RPerform(t)

SpecRaw == InitRaw /\ [][NextRaw]_vars

----------------------------------------------------------------------------
(* Vocabulary of the properties *)

StartsWith(s, p) == Len(s) >= Len(p) /\ SubSeq(s, 1, Len(p)) = p

Contains(s, sub) ==
    \E i \in 1..Len(s) : i + Len(sub) - 1 <= Len(s) /\ SubSeq(s, i, i + Len(sub) - 1) = sub

Frames(t) == { stack[t][i] : i \in 1..Len(stack[t]) }

FetchFrames(t) == { f \in Frames(t) : f.fn = "retrieve_url" }

\* the transfers made so far by the calls of the controller that are active in a stack
RECURSIVE ActiveRequests(_)
ActiveRequests(s) ==
    IF s = <<>> THEN 0
    ELSE (IF s[1].fn = "retrieve_url" THEN s[1].attempts ELSE 0) + ActiveRequests(Tail(s))

\* the top call of the controller holds a result it has not evaluated yet
Fresh(t) ==
    /\ At(t, "retrieve_url", "eval")
    /\ Top(t).res # NULL
    /\ Len(Top(t).hist) < Top(t).attempts

\* the top call of the controller holds a result it has not evaluated yet, or
\* is on its way through the scheme upgrade that result asked for
Upgrading(t) ==
    \/ Fresh(t)
    \/ At(t, "retrieve_url", "newhost")
    \/ At(t, "retrieve_url", "free")
    \/ At(t, "retrieve_url", "assign")

\* the nodes of a forest in document order (depth first, a node before its children)
RECURSIVE PreOrder(_)
PreOrder(forest) ==
    IF forest = <<>> THEN <<>>
    ELSE << Head(forest) >> \o PreOrder(Head(forest).children) \o PreOrder(Tail(forest))

\* the positions of the attributes name=csrfmiddlewaretoken of an element
TokenNames(e) ==
    { i \in 1..Len(e.attrs) : e.attrs[i].name = "name" /\ e.attrs[i].value = <<"csrfmiddlewaretoken">> }

\* the positions of its attributes named value that come after such a one
TokenValues(e) ==
    { j \in 1..Len(e.attrs) : e.attrs[j].name = "value" /\ \E i \in TokenNames(e) : i < j }

\* an input element that carries the token
TokenInput(e) == e.name = <<"input">> /\ TokenValues(e) # {}

Least(S) == CHOOSE x \in S : \A y \in S : x <= y

\* what the extraction is to return for a document: found or not, and the token
Expected(doc) ==
    LET els == PreOrder(doc.children)
        hits == { k \in 1..Len(els) : TokenInput(els[k]) }
    IN IF hits = {} THEN [ret |-> FALSE, token |-> <<>>, fault |-> FALSE]
       ELSE [ret |-> TRUE,
             token |-> els[Least(hits)].attrs[Least(TokenValues(els[Least(hits)]))].value,
             fault |-> FALSE]

\* a result that asks for nothing: a transport failure, a status that is no
\* redirect, or a redirect that needs neither the scheme upgrade nor a login
AsksNothing(res, h) ==
    \/ ~res.success
    \/ res.httpcode \notin {301, 302, 303}
    \/ res.redirect_url = <<>>
    \/ /\ StartsWith(h, HttpsScheme) \/ ~StartsWith(res.redirect_url[1], HttpsScheme)
       /\ ~Contains(res.redirect_url[1], LoginMarker)

\* the top call of the controller has found that its result asks for nothing
Settled(t) ==
    /\ Depth(t) > 0
    /\ Top(t).fn = "retrieve_url"
    /\ Top(t).pc \in {"eval", "done"}
    /\ Top(t).hist # <<>>
    /\ Len(Top(t).hist) = Top(t).attempts
    /\ Top(t).hist[Len(Top(t).hist)].act = "none"

\* the result a caller of the controller has just been handed
Received(l) ==
    CASE l.fn = "get_assets" -> l.res
      [] l.pc = "got" -> l.res_get
      [] OTHER -> l.res_post

\* a result that redirects to the login page
NamesLogin(res) ==
    /\ res.success
    /\ res.httpcode = 302
    /\ res.redirect_url # <<>>
    /\ Contains(res.redirect_url[1], LoginMarker)

\* 3 attempts, each followed by one login of two fetches of 3 attempts
FetchRequestBound == MaxAttempts + MaxAttempts * (MaxAttempts + MaxAttempts)

\* the host the scheme upgrade is to produce
SecureForm(h) ==
    IF StartsWith(h, HttpScheme)
    THEN HttpsScheme \o SubSeq(h, Len(HttpScheme) + 1, Len(h))
    ELSE HttpsScheme \o h

----------------------------------------------------------------------------
(* Properties *)

\* C1: no call of smm_connection_curl_retrieve_url makes more than 3 raw
\* transfers for its path, whatever the server answers
C1_AtMostThreeAttempts ==
    \A t \in Threads : \A f \in FetchFrames(t) : f.attempts <= 3

C1_ThirdAttemptMade ==
    \E t \in Threads : \E f \in FetchFrames(t) :
        f.attempts = 3 /\ f.retries = 3 /\ f.pc = "done"

\* C2: the transfers caused by one fetch, those of the logins it invokes
\* included, stay within a fixed bound (here the 21 that three attempts and
\* three logins of two three-attempt fetches make)
C2_RequestsBounded ==
    \A t \in Threads : ActiveRequests(stack[t]) <= FetchRequestBound

\* C3: a fetch whose every attempt is answered with the login redirect, and
\* whose logins all succeed, returns after exactly 3 attempts with that redirect
C3_ExactlyThreeAttempts ==
    \A t \in Threads : \A f \in FetchFrames(t) :
        ( /\ f.pc = "done"
          /\ \A i \in 1..Len(f.hist) :
                f.hist[i].login_redirect /\ f.hist[i].act # "login_failed" )
        => ( /\ f.attempts = 3
             /\ f.res # NULL
             /\ Deref(f.res).success
             /\ Deref(f.res).httpcode = 302
             /\ Contains(Deref(Deref(f.res).redirect_url), LoginMarker) )

\* C4: a successful 301, 302 or 303 with a secure target, met with an insecure
\* host, rewrites the host to https:// + host without a leading http://, and
\* with fewer than 3 attempts made the same path and body are tried again
C4_UpgradeOnRedirect ==
    [][ \A t \in callers :
          ( /\ Upgrading(t)
            /\ Deref(Top(t).res).success
            /\ Deref(Top(t).res).httpcode \in {301, 302, 303}
            /\ Deref(Top(t).res).redirect_url # NULL
            /\ StartsWith(Deref(Deref(Top(t).res).redirect_url), HttpsScheme)
            /\ ~StartsWith(host, HttpsScheme)
            /\ stack'[t] # stack[t] )
          => LET d == stack'[t][Len(stack[t])] IN
             /\ Len(stack'[t]) = Len(stack[t])
             /\ d.pc \in {"newhost", "free", "assign"} => host' = host
             /\ d.pc \notin {"newhost", "free", "assign"} =>
                    /\ host' = SecureForm(host)
                    /\ Top(t).attempts < 3 =>
                         d.pc = "call_r" /\ d.path = Top(t).path /\ d.post = Top(t).post ]_vars

\* C5: a successful redirect to the login path, when the scheme upgrade does
\* not apply, invokes the login; a successful login with fewer than 3 attempts
\* made is followed by one more attempt, a failed login by none and the
\* redirect result is what is returned
C5_LoginOnLoginRedirect ==
    [][ \A t \in callers :
          /\ ( /\ Fresh(t)
               /\ Deref(Top(t).res).success
               /\ Deref(Top(t).res).httpcode = 302
               /\ Deref(Top(t).res).redirect_url # NULL
               /\ Contains(Deref(Deref(Top(t).res).redirect_url), LoginMarker)
               /\ \/ StartsWith(host, HttpsScheme)
                  \/ ~StartsWith(Deref(Deref(Top(t).res).redirect_url), HttpsScheme)
               /\ stack'[t] # stack[t] )
             => ( /\ Len(stack'[t]) > Len(stack[t])
                  /\ stack'[t][Len(stack[t]) + 1].fn = "login" )
          /\ ( /\ At(t, "login", "ret")
               /\ stack[t][Len(stack[t]) - 1].fn = "retrieve_url"
               /\ stack'[t] # stack[t] )
             => LET c == stack[t][Len(stack[t]) - 1]
                    d == stack'[t][Len(stack[t]) - 1]
                IN IF Top(t).res
                   THEN c.attempts < 3 => (d.pc = "call_r" /\ d.attempts = c.attempts)
                   ELSE d.pc = "eval" /\ ~d.retry /\ d.res = c.res ]_vars

\* C6: a host that starts with https:// is never changed
C6_SecureHostKept ==
    [][ StartsWith(host, HttpsScheme) => host' = host ]_vars

C6_SecureRedirectSeen ==
    /\ StartsWith(host, HttpsScheme)
    /\ \E t \in Threads : \E f \in FetchFrames(t) :
        /\ f.res # NULL
        /\ Len(f.hist) = f.attempts
        /\ Deref(f.res).success
        /\ Deref(f.res).httpcode = 302
        /\ Deref(f.res).redirect_url # NULL
        /\ StartsWith(Deref(Deref(f.res).redirect_url), HttpsScheme)

\* C7: once the form is submitted, the login ends Connected and true exactly
\* when the POST result is a transport success with status 302, and
\* AuthenticationFailure and false for every other POST result
C7_PostDecidesLogin ==
    \A t \in Threads : \A l \in Frames(t) :
        (l.fn = "login" /\ l.pc = "ret" /\ l.post_data # NULL)
        => IF l.res_post # NULL /\ Deref(l.res_post).success /\ Deref(l.res_post).httpcode = 302
           THEN state = "CONNECTED" /\ l.res = TRUE
           ELSE state = "AUTHENTICATION_FAILURE" /\ l.res = FALSE

C7_LoginAccepted ==
    \E t \in Threads : \E l \in Frames(t) :
        l.fn = "login" /\ l.pc = "ret" /\ l.post_data # NULL /\ l.res = TRUE

\* C8: the state is Connected only after a login POST was answered with a
\* transport success and status 302
C8_ConnectedOnlyAfterAcceptedLogin ==
    state = "CONNECTED" => loginAccepted

C8_Connected ==
    state = "CONNECTED" /\ conn = "open"

\* C9: between operations, Connected implies that the last completed request
\* succeeded
C9_ConnectedMeansLastRequestOk ==
    \A t \in callers :
        (conn = "open" /\ stack[t] = <<>> /\ ret[t] # NULL /\ state = "CONNECTED")
        => Deref(Deref(ret[t]).res).success

\* C10: while a thread is inside a fetch that has started its first transfer,
\* no other thread holds the session lock, that is, performs a transfer
C10_FetchExcludesOthers ==
    \A t \in callers : \A u \in callers :
        ( /\ t # u
          /\ \E f \in FetchFrames(t) : f.attempts >= 1 \/ f.pc = "perform" )
        => lock # u

\* C11: no thread builds its request URL from conn->host (which it does holding
\* the lock) while another thread has freed the host and not yet stored the new one
C11_HostReadExcludesHostWrite ==
    \A t \in callers :
        (At(t, "retrieve_url", "perform") /\ lock = t) => ~HostDangling(t)

\* C12: for every document, the extraction returns the value of the first
\* element in document order that is an input with name=csrfmiddlewaretoken
\* followed by a value attribute, unchanged, and nothing when there is none
C12_ExtractsFirstTokenInput ==
    extracted # NULL => Deref(extracted) = Expected(Deref(tnod))

\* C13: a call of get_state changes nothing in the session, returns Unknown
\* for the NULL session, and returns what the call before it returned for the
\* same session when no other call was made in between
C13_GetStateReadsOnly ==
    [][ \A t \in callers :
          (out'[t] # out[t] /\ out'[t] # <<>> /\ out'[t][1].op = "get_state")
          => /\ <<conn, host, state, token, curl, lock, stack, ret>>' =
                <<conn, host, state, token, curl, lock, stack, ret>>
             /\ out'[t][1].session = <<>> => out'[t][1].value = "UNKNOWN"
             /\ out'[t][1].session # <<>> => out'[t][1].value = state
             /\ ( /\ out[t] # <<>>
                  /\ out[t][1].op = "get_state"
                  /\ out[t][1].session = out'[t][1].session )
                => out'[t][1].value = out[t][1].value ]_vars

C13_StateReadTwice ==
    \E t \in callers :
        /\ out[t] # <<>>
        /\ out[t][1].op = "get_state"
        /\ out[t][1].nth = 2
        /\ out[t][1].session # <<>>
        /\ out[t][1].value = "CONNECTED"

\* C14: connect starts the session in Unknown with one call of the login, and
\* returns the session whatever the login returns; on return the state is
\* Connected exactly when that login returned true, and otherwise Unknown,
\* NoHostConnection or AuthenticationFailure
C14_ConnectEndsAsItsLogin ==
    [][ \A t \in callers :
          /\ (stack[t] = <<>> /\ stack'[t] # <<>> /\ stack'[t][1].fn = "connect")
             => /\ state' = "UNKNOWN"
                /\ Cardinality({ i \in 1..Len(stack'[t]) : stack'[t][i].fn = "login" }) = 1
          /\ ( /\ At(t, "login", "ret")
               /\ stack[t][Len(stack[t]) - 1].fn = "connect"
               /\ stack'[t] # stack[t] )
             => /\ stack'[t] = <<>>
                /\ conn' = "open"
                /\ state' = "CONNECTED" <=> Top(t).res
                /\ state' \in {"CONNECTED", "UNKNOWN", "NO_HOST_CONNECTION", "AUTHENTICATION_FAILURE"} ]_vars

\* C15: a login whose GET of the login page met a transport failure (no
\* response) has set the state to NoHostConnection, returns false and has
\* submitted nothing
C15_TransportFailureIsNoHostConnection ==
    \A t \in callers : \A l \in Frames(t) :
        ( /\ l.fn = "login"
          /\ l.pc = "ret"
          /\ l.res_get # <<>>
          /\ ~l.res_get[1].success
          /\ l.res_get[1].httpcode = 0 )
        => (state = "NO_HOST_CONNECTION" /\ ~l.res /\ l.post_data = <<>>)

\* C16: a result that is a transport failure, has a status other than 301,
\* 302 and 303, or is a redirect needing neither upgrade nor login, ends the
\* fetch: its evaluation starts no transfer and no login and leaves host,
\* state and token alone, and it is the result that is returned
C16_PlainResultIsReturned ==
    [][ \A t \in callers :
          /\ (Fresh(t) /\ AsksNothing(Top(t).res[1], host) /\ stack'[t] # stack[t])
             => /\ Len(stack'[t]) = Len(stack[t])
                /\ <<host, state, token, lock>>' = <<host, state, token, lock>>
                /\ stack'[t][Len(stack[t])] =
                      [Top(t) EXCEPT !.pc = "eval", !.retry = FALSE, !.retries = @ + 1,
                                     !.hist = stack'[t][Len(stack[t])].hist]
                /\ Settled(t)'
          /\ (Settled(t) /\ stack'[t] # stack[t])
             => /\ <<host, state, token, lock>>' = <<host, state, token, lock>>
                /\ IF Top(t).pc = "eval"
                   THEN stack'[t] = SetTop(stack[t], [Top(t) EXCEPT !.pc = "done"])
                   ELSE /\ Len(stack'[t]) = Len(stack[t]) - 1
                        /\ LET l == stack'[t][Len(stack[t]) - 1] IN
                           \/ l.pc = "decide" /\ l.res = Top(t).res
                           \/ l.pc = "got" /\ l.res_get = Top(t).res
                           \/ l.pc = "posted" /\ l.res_post = Top(t).res ]_vars

C16_FailureReturnedAtOnce ==
    \E t \in callers :
        /\ Settled(t)
        /\ Top(t).pc = "done"
        /\ Top(t).attempts = 1
        /\ Top(t).path = AssetsPath
        /\ ~Top(t).res[1].success

\* C17: get_assets returns true exactly when the fetch ended with transport
\* success and status 200 and the body of that response decodes as the list
\* of assets; when it returns false the outputs are not written
C17_TrueOnlyForDecodedList ==
    \A t \in callers :
        (out[t] # <<>> /\ out[t][1].op = "get_assets" /\ ret[t] # <<>>)
        => LET o == out[t][1]
               res == ret[t][1].res
               body == ret[t][1].body
           IN /\ o.value <=> ( /\ res # <<>>
                               /\ res[1].success
                               /\ res[1].httpcode = 200
                               /\ body # <<>>
                               /\ body[Len(body)] \in {"assets0", "assets1"} )
              /\ ~o.value => o.assets = <<>>

\* C18: a login whose login page came with success and 200 but holds no
\* token, also when a token of an earlier login is cached, submits nothing,
\* leaves the state as it is and returns false
C18_NoTokenNoSubmit ==
    [][ \A t \in callers :
          ( /\ At(t, "login", "got")
            /\ Top(t).res_get # <<>>
            /\ Top(t).res_get[1].success
            /\ Top(t).res_get[1].httpcode = 200
            /\ \A i \in 1..Len(Top(t).docbuf) : Top(t).docbuf[i] \notin {"form1", "form2"}
            /\ stack'[t] # stack[t] )
          => /\ state' = state
             /\ stack'[t] = SetTop(stack[t], [Top(t) EXCEPT !.pc = "ret"])
             /\ ~Top(t).res ]_vars

\* C19: a login whose GET of the login page did not end with success and 200
\* returns false, has submitted nothing, and the state is what it was when
\* the login was called
C19_FailedGetKeepsState ==
    \A t \in callers : \A l \in Frames(t) :
        ( /\ l.fn = "login"
          /\ l.pc = "ret"
          /\ l.res_get # <<>>
          /\ ~(l.res_get[1].success /\ l.res_get[1].httpcode = 200) )
        => (~l.res /\ l.post_data = <<>> /\ state = l.state0)

\* C20: the bytes in the sink of a fetch that returns are the body of its
\* last attempt and nothing more
C20_BodyIsOfLastAttempt ==
    \A t \in callers : \A f \in FetchFrames(t) :
        (f.pc = "done" /\ f.sink)
        => SelectSeq(f.wbuf, LAMBDA b : b # "none")
            = SelectSeq(<< f.wbuf[Len(f.wbuf)] >>, LAMBDA b : b # "none")

\* C21: inside one fetch, an evaluation looks at the result of the latest
\* attempt, which has not been evaluated before; the only other changes of the
\* result are its discarding before the next attempt and its replacement by
\* that attempt; and the caller is handed the result of the last attempt
C21_EvaluatesLatestResultOnce ==
    [][ \A t \in callers : \A d \in 1..Depth(t) :
          (IsFetch(stack[t][d]) /\ stack'[t] # stack[t])
          => LET f == stack[t][d] IN
             IF Len(stack'[t]) >= d
             THEN LET g == stack'[t][d] IN
                  /\ IsFetch(g)
                  /\ \/ \* an attempt: the old result is gone, a new one is there
                        /\ g.attempts = f.attempts + 1
                        /\ f.res = <<>> /\ g.res # <<>>
                        /\ g.hist = f.hist
                     \/ \* an evaluation, of a result not evaluated before
                        /\ g.attempts = f.attempts
                        /\ Len(g.hist) = Len(f.hist) + 1
                        /\ f.res # <<>>
                        /\ Len(f.hist) = f.attempts - 1
                        /\ g.hist[Len(g.hist)].login_redirect = NamesLogin(f.res[1])
                        /\ g.res \in {f.res, <<>>}
                        /\ g.res = <<>> => g.pc = "call_r"
                        /\ g.res # <<>> => g.pc # "call_r"
                     \/ \* any other step: the result stays, or is discarded for the next attempt
                        /\ g.attempts = f.attempts
                        /\ Len(g.hist) = Len(f.hist)
                        /\ g.res \in {f.res, <<>>}
                        /\ g.res # f.res => g.pc = "call_r"
                        /\ (g.res # <<>> /\ g.pc = "call_r") => g = f
             ELSE \* the return
                  /\ d = Depth(t)
                  /\ Len(stack'[t]) = d - 1
                  /\ f.res # <<>>
                  /\ Len(f.hist) = f.attempts
                  /\ Received(stack'[t][d - 1]) = f.res ]_vars

\* a fetch of the assets is about to return the result of its second attempt,
\* made after the login that its first result asked for
C21_SecondResultReturned ==
    \E t \in callers :
        /\ At(t, "retrieve_url", "done")
        /\ Top(t).path = AssetsPath
        /\ Top(t).attempts = 2
        /\ Len(Top(t).hist) = 2
        /\ Top(t).hist[1].act = "login_ok"

\* C22: a result of a raw transfer has a redirect target only with status
\* 301, 302 or 303, and a content type only with status 200
C22_FieldsFollowStatus ==
    \A t \in callers : \A f \in FetchFrames(t) :
        f.res # <<>>
        => /\ f.res[1].redirect_url # <<>> => f.res[1].httpcode \in {301, 302, 303}
           /\ f.res[1].content_type # <<>> => f.res[1].httpcode = 200

\* a transfer has ended with a status the library does not tell apart
C22_TemporaryRedirectSeen ==
    \E t \in callers : \E f \in FetchFrames(t) :
        f.res # <<>> /\ f.res[1].success /\ f.res[1].httpcode = 307 /\ conn = "open"

\* C23: once the state of the session is not Unknown, no step of a fetch or
\* of a login makes it Unknown again
C23_UnknownIsNeverRestored ==
    [][ state # "UNKNOWN" => state' # "UNKNOWN" ]_vars

\* a login that began in the state Connected has ended in another state
C23_LaterLoginFailed ==
    \E t \in callers :
        /\ At(t, "login", "ret")
        /\ Top(t).state0 = "CONNECTED"
        /\ state = "AUTHENTICATION_FAILURE"

\* C24: the state of the session is always one of Unknown, Connected,
\* NoHostConnection and AuthenticationFailure
C24_StateIsOneOfFour ==
    state \in {"UNKNOWN", "CONNECTED", "NO_HOST_CONNECTION", "AUTHENTICATION_FAILURE"}

\* a connect has returned with the session in the state AuthenticationFailure
C24_ConnectFailedToAuthenticate ==
    /\ conn = "open"
    /\ state = "AUTHENTICATION_FAILURE"
    /\ \A t \in callers : stack[t] = <<>>

\* the threads that are inside a transfer on the handle of the session
Transferring ==
    { t \in callers : Depth(t) > 0 /\ Top(t).fn = "retrieve_url" /\ Top(t).pc = "perform" }

\* C25: at most one thread at a time is inside a transfer, it owns the lock
\* and uses the handle of the session, and no second handle is ever created
C25_OneTransferOneHandle ==
    /\ Cardinality(Transferring) <= 1
    /\ \A t \in Transferring : lock = t /\ curl # <<>>
    /\ curl \in {<<>>, <<1>>}

\* one thread is inside a transfer while the other is about to start one of
\* its own fetch
C25_SecondThreadWaits ==
    \E t \in callers : \E u \in callers \ {t} :
        /\ t \in Transferring
        /\ At(u, "retrieve_url", "call_r")
        /\ Top(t).attempts = 0
        /\ Top(u).attempts = 0

\* C26: the lock is owned only by a thread inside a transfer, so it is free
\* again when the raw call returns; a thread that is about to take it does
\* not own it; and whenever a thread waits for it, its owner can finish the
\* transfer, so that nested logins and their fetches go on
C26_LockIsReleasedAndNeverRetaken ==
    /\ lock \in callers \cup {NoThread}
    /\ \A t \in callers : lock = t => t \in Transferring
    /\ \A t \in callers :
          At(t, "retrieve_url", "call_r")
          => /\ lock # t
             /\ lock = NoThread \/ \E u \in callers : lock = u /\ ENABLED RPerform(u)

\* a thread owns the lock for a transfer of a login nested inside its fetch,
\* and the other thread waits for the lock
C26_NestedLoginTransfers ==
    \E t \in callers : \E u \in callers \ {t} :
        /\ t \in Transferring
        /\ lock = t
        /\ Depth(t) >= 4
        /\ stack[t][Depth(t) - 1].fn = "login"
        /\ stack[t][Depth(t) - 2].fn = "retrieve_url"
        /\ At(u, "retrieve_url", "call_r")

\* C27: against the server that sends insecure requests to the secure site,
\* serves the login form there and accepts the credentials, a connect to
\* http://x returns with the host https://x and the state Connected
C27_UpgradeThenLoginInOneConnect ==
    (server = "upgrading" /\ conn = "open")
    => /\ host = HttpsScheme \o HostName
       /\ state = "CONNECTED"
       /\ loginAccepted

\* such a connect has just returned
C27_ConnectReturnedUpgraded ==
    /\ server = "upgrading"
    /\ conn = "open"
    /\ host = HttpsScheme \o HostName
    /\ token # <<>>
    /\ \A t \in callers : stack[t] = <<>> /\ ret[t] = <<>> /\ out[t] = <<>>

====
